---- MODULE Spec2Model ----
(***************************************************************************)
(* Model of the voice-translation orchestrator (hooks/useVoiceTranslation) *)
(* together with the shared SpeechService (recognition + synthesis), the   *)
(* TranslationService and the presentation layer's history list.           *)
(*                                                                         *)
(* One action is one JavaScript task: a call made by the user, or an event *)
(* delivered by the browser, followed by every promise continuation        *)
(* (microtask) it triggers.  Texts are sequences of one-character strings, *)
(* confidences are hundredths (95 stands for 0.95).                        *)
(*                                                                         *)
(* Spec          the hook with its capabilities, one action per task       *)
(* SpecLive      the same when every capability call produces a signal     *)
(* SpecSteps     the same with the handlers taken statement by statement   *)
(* SpecLanguage  the language props and the memoized callbacks of the hook *)
(* SpecService   the TranslationService alone (translateText, batch)       *)
(***************************************************************************)
EXTENDS Integers, Sequences, FiniteSets, TLC

\* Bound of the model: number of pipeline runs (calls of startListening or
\* translateText) that are followed.
MaxRuns == 2
\* Bound of the model: number of requests in one batchTranslate call.
MaxBatch == 2
\* Bound of the model: number of pipeline runs followed when termination is
\* checked (SpecLive).
MaxLiveRuns == 1

\* ---------------------------------------------------------------- inputs
\* Transcripts the recognition engine may return.
Transcripts == { <<"h", "i", " ">>, <<" ">> }
\* Confidences (hundredths) the recognition engine may report.
CaptureConfidences == { 90 }
\* Texts the caller may hand to translateText.
TypedTexts == { <<"h", "i">> }
\* Texts of the requests handed to batchTranslate.
BatchTexts == { <<"h", "i">>, <<"y", "o">> }
\* event.error of a recognition error event / of a synthesis error event.
RecErrors == { "not-allowed" }
SynthErrors == { "interrupted" }

\* data.candidates?.[0]?.content?.parts?.[0]?.text of a parsed response:
\* has = FALSE stands for undefined.
NoCandidate == [has |-> FALSE, text |-> <<>>]
Candidates ==
  { NoCandidate,
    [has |-> TRUE, text |-> <<>>],
    [has |-> TRUE, text |-> <<" ">>],
    [has |-> TRUE, text |-> <<" ", "h", "o", " ">>] }

\* What the environment does to one translateText call: how the API key is
\* resolved, how the remote request ends, and the candidate of the body.
TranslationEnvs ==
  [key : {"netFail", "notOk", "badJson"}, resp : {"ok"}, cand : {NoCandidate}]
  \cup [key : {"local", "fetched"}, resp : {"netFail", "notOk", "badJson"},
        cand : {NoCandidate}]
  \cup [key : {"local", "fetched"}, resp : {"ok"}, cand : Candidates]

\* ------------------------------------------------------- pure functions
IsWhiteSpace(c) == c = " "

RECURSIVE TrimStart(_)
TrimStart(s) ==
  IF s = <<>> THEN <<>>
  ELSE IF IsWhiteSpace(Head(s)) THEN TrimStart(Tail(s)) ELSE s

RECURSIVE TrimEnd(_)
TrimEnd(s) ==
  IF s = <<>> THEN <<>>
  ELSE IF IsWhiteSpace(s[Len(s)]) THEN TrimEnd(SubSeq(s, 1, Len(s) - 1)) ELSE s

\* mutation of Trim: the text is tested and used untrimmed
Trim_Identity(s) == s

\* String.prototype.trim
Trim(s) == TrimEnd(TrimStart(s))

\* mutation of MathMin: the comparison is inverted
MathMin_Inverted(a, b) == IF a < b THEN b ELSE a

\* Math.min on two numbers
MathMin(a, b) == IF a < b THEN a ELSE b

\* getApiKey: TRUE when it returns a key, FALSE when it throws.
GetApiKey(key) ==
  IF key = "local" THEN TRUE
  ELSE IF key = "fetched" THEN TRUE
  ELSE FALSE

\* Confidence attached to a parsed response, and to the fallback.
DefaultConfidence == 95
FallbackConfidence == 0

\* mutation of TranslateText: an empty candidate is kept (?? in place of ||)
TranslateText_KeepsEmpty(text, env) ==
  IF ~GetApiKey(env.key) \/ env.resp # "ok"
    THEN [translatedText |-> text, confidence |-> FallbackConfidence]
  ELSE
    LET trimmed == IF env.cand.has THEN Trim(env.cand.text) ELSE <<>>
        translatedText == IF env.cand.has THEN trimmed ELSE text
    IN  [translatedText |-> translatedText, confidence |-> DefaultConfidence]

\* mutation of TranslateText: the catch block reports the default confidence
TranslateText_HighFallback(text, env) ==
  IF ~GetApiKey(env.key) \/ env.resp # "ok"
    THEN [translatedText |-> text, confidence |-> DefaultConfidence]
  ELSE
    LET trimmed == IF env.cand.has THEN Trim(env.cand.text) ELSE <<>>
        translatedText == IF env.cand.has /\ trimmed # <<>> THEN trimmed ELSE text
    IN  [translatedText |-> translatedText, confidence |-> DefaultConfidence]

\* TranslationService.translateText: the response it resolves with.  A throw
\* of getApiKey, of fetch, of the status test or of response.json() ends in
\* the catch block.
TranslateText(text, env) ==
  IF ~GetApiKey(env.key) \/ env.resp # "ok"
    THEN [translatedText |-> text, confidence |-> FallbackConfidence]
  ELSE
    LET trimmed == IF env.cand.has THEN Trim(env.cand.text) ELSE <<>>
        translatedText == IF env.cand.has /\ trimmed # <<>> THEN trimmed ELSE text
    IN  [translatedText |-> translatedText, confidence |-> DefaultConfidence]

\* --------------------------------------------------------------- state
VARIABLES
  isListening,      \* useState flag
  isTranslating,    \* useState flag
  isSpeaking,       \* useState flag
  abortController,  \* abortControllerRef.current: "null", "active", "aborted"
  hasRecognition,   \* SpeechService.recognition is not null
  hasSynthesis,     \* SpeechService.synthesis is defined
  recStarted,       \* the recognition object is started (no end event yet)
  recOwner,         \* run whose promise recognition.onresult/onerror settle
  utterances,       \* speechSynthesis queue: runs whose utterance is queued
  cancelled,        \* utterances removed by cancel(), event not yet fired
  runs,             \* one record per startListening / translateText call
  messages,         \* history list of the presentation layer
  batch,            \* one batchTranslate call on the TranslationService
  lang              \* language props of the hook, its memoized callbacks, and
                    \* the languages used by the voice run under way

hookVars == << isListening, isTranslating, isSpeaking, abortController,
               hasRecognition, hasSynthesis, recStarted, recOwner,
               utterances, cancelled, runs, messages, lang >>

vars == << isListening, isTranslating, isSpeaking, abortController,
           hasRecognition, hasSynthesis, recStarted, recOwner,
           utterances, cancelled, runs, messages, batch, lang >>

RunIds == 1 .. Len(runs)

NoResponse == [translatedText |-> <<>>, confidence |-> 0]
NoResult == [originalText |-> <<>>, translatedText |-> <<>>, confidence |-> 0]

\* A call of startListening ("voice") or translateText ("text").
\* pc: the await the async function is suspended at, or "done".
NewRun(kind, pc, text, conf) ==
  [ kind |-> kind, pc |-> pc,
    text |-> text,              \* captured or typed text
    conf |-> conf,              \* speechConfidence
    captured |-> FALSE,         \* recognizeSpeech resolved with a result
    captureFailed |-> FALSE,    \* a recognition error event was delivered
    translated |-> "no",        \* "no", "failed", "unusable", "ok"
    tr |-> NoResponse,          \* TranslationResponse
    played |-> "no",            \* "no", "end", "error"
    stoppedListening |-> FALSE, \* stopListening was called while awaiting capture
    stoppedSpeaking |-> FALSE,  \* stopSpeaking was called while awaiting playback
    captures |-> 0,             \* recognition.start() calls that succeeded
    translations |-> 0,         \* translationService.translateText calls
    playbacks |-> 0,            \* speechService.synthesizeSpeech calls
    spoken |-> <<>>,            \* text handed to synthesizeSpeech
    result |-> NoResult,        \* VoiceTranslationResult built
    results |-> 0,              \* onTranslationComplete invocations
    errors |-> <<>> ]           \* onError invocations (their messages)

ErrorMessage(prefix, detail) == [prefix |-> prefix, detail |-> detail]

\* batchTranslate has not been called
NoBatch == [ state |-> "idle",   \* "idle", "pending", "fulfilled", "rejected"
             reqs |-> <<>>,      \* one record per translateText call of the map
             order |-> <<>>,     \* indices in the order their promises settled
             result |-> <<>> ]   \* the array Promise.all resolved with

\* Language tags the caller may configure.
Languages == { "en", "es", "fr" }

\* the language pair a translateAndSpeak callback has closed over
Closure(from, to) == [fromLanguage |-> from, toLanguage |-> to]

NoPair == Closure("", "")

\* no voice run has been started on the language side
NoLangRun ==
  [ stage |-> "none",          \* "none", "listening", "translating", "speaking", "done"
    configured |-> NoPair,     \* props of the hook when startListening was invoked
    callee |-> NoPair,         \* the translateAndSpeak the invoked startListening calls
    captureLanguage |-> "",    \* language handed to recognizeSpeech
    request |-> NoPair,        \* fromLanguage, toLanguage of the translation request
    playLanguage |-> "",       \* language handed to synthesizeSpeech
    result |-> NoPair ]        \* fromLanguage, toLanguage of the result

\* the hook after its first render with the props from, to
FirstRender(from, to) ==
  [ fromLanguage |-> from, toLanguage |-> to,
    translateAndSpeak |-> Closure(from, to),
    startListening |-> [ fromLanguage |-> from,
                         translateAndSpeak |-> Closure(from, to) ],
    run |-> NoLangRun ]

\* SpeechService.isSupported
IsSupported == hasRecognition /\ hasSynthesis

Init ==
  /\ isListening = FALSE
  /\ isTranslating = FALSE
  /\ isSpeaking = FALSE
  /\ abortController = "null"
  /\ hasRecognition \in BOOLEAN
  /\ hasSynthesis \in BOOLEAN
  /\ recStarted = FALSE
  /\ recOwner = 0
  /\ utterances = <<>>
  /\ cancelled = {}
  /\ runs = <<>>
  /\ messages = <<>>
  /\ batch = NoBatch
  /\ lang = FirstRender("en", "es")

\* ------------------------------------------------------------- messages
NotSupportedMessage ==
  ErrorMessage("Speech recognition is not supported in this browser", "")
\* message of the DOMException thrown by recognition.start()
InvalidStateMessage == ErrorMessage("InvalidStateError", "recognition has already started")
RecognitionErrorMessage(e) == ErrorMessage("Speech recognition error: ", e)
SynthesisErrorMessage(e) == ErrorMessage("Speech synthesis error: ", e)
SynthesisUnsupportedMessage ==
  ErrorMessage("Speech synthesis not supported in this browser", "")

\* handleTranslationComplete: the history list after the result is stored
\* (id and timestamp come from the clock and are left out).
HandleTranslationComplete(prev, result) ==
  Append(prev, [ originalText |-> result.originalText,
                 translatedText |-> result.translatedText,
                 confidence |-> result.confidence,
                 isUserMessage |-> TRUE ])

\* mutation of BeginTranslate: playback is started without awaiting the
\* translator
BeginTranslate_NoAwait(run, text, conf) ==
  [run EXCEPT !.pc = "translating", !.text = text, !.conf = conf,
              !.translations = @ + 1, !.playbacks = @ + 1]

\* translateAndSpeak up to its first await: the run now awaits the translator.
BeginTranslate(run, text, conf) ==
  [run EXCEPT !.pc = "translating", !.text = text, !.conf = conf,
              !.translations = @ + 1]

\* mutation of BuildResult: the speech confidence is reported as it is
BuildResult_SpeechConfidence(text, speechConfidence, tr) ==
  [ originalText |-> text,
    translatedText |-> tr.translatedText,
    confidence |-> speechConfidence ]

\* the VoiceTranslationResult built from the translator's response
BuildResult(text, speechConfidence, tr) ==
  [ originalText |-> text,
    translatedText |-> tr.translatedText,
    confidence |-> MathMin(speechConfidence, tr.confidence) ]

\* how a translateText call ended, in the words of the specification
Outcome(env) ==
  IF ~GetApiKey(env.key) \/ env.resp # "ok" THEN "failed"
  ELSE IF ~env.cand.has \/ Trim(env.cand.text) = <<>> THEN "unusable"
  ELSE "ok"

\* -------------------------------------------------------------- actions
\* mutation of StartListening: the status is set before the capability test
StartListening_FlagBeforeSupportTest ==
  /\ Len(runs) < MaxRuns
  /\ LET r == Len(runs) + 1 IN
     IF ~IsSupported
     THEN /\ runs' = Append(runs, [NewRun("voice", "done", <<>>, 0)
                                     EXCEPT !.errors = <<NotSupportedMessage>>])
          /\ isListening' = TRUE
          /\ UNCHANGED << isTranslating, isSpeaking, abortController,
                          hasRecognition, hasSynthesis, recStarted, recOwner,
                          utterances, cancelled, messages >>
     ELSE /\ abortController' = "active"
          /\ recOwner' = r
          /\ IF recStarted
             THEN /\ isListening' = FALSE
                  /\ runs' = Append(runs, [NewRun("voice", "done", <<>>, 0)
                                            EXCEPT !.errors = <<InvalidStateMessage>>])
                  /\ UNCHANGED recStarted
             ELSE /\ isListening' = TRUE
                  /\ recStarted' = TRUE
                  /\ runs' = Append(runs, [NewRun("voice", "listening", <<>>, 0)
                                            EXCEPT !.captures = 1])
          /\ UNCHANGED << isTranslating, isSpeaking, hasRecognition, hasSynthesis,
                          utterances, cancelled, messages >>

\* startListening(), up to the await of recognizeSpeech (and through the
\* catch block when recognition.start() throws).
StartListening ==
  /\ Len(runs) < MaxRuns
  /\ LET r == Len(runs) + 1 IN
     IF ~IsSupported
     THEN /\ runs' = Append(runs, [NewRun("voice", "done", <<>>, 0)
                                     EXCEPT !.errors = <<NotSupportedMessage>>])
          /\ UNCHANGED << isListening, isTranslating, isSpeaking, abortController,
                          hasRecognition, hasSynthesis, recStarted, recOwner,
                          utterances, cancelled, messages >>
     ELSE /\ abortController' = "active"
          /\ recOwner' = r
          /\ IF recStarted
             THEN \* start() throws InvalidStateError: the promise rejects
                  /\ isListening' = FALSE
                  /\ runs' = Append(runs, [NewRun("voice", "done", <<>>, 0)
                                            EXCEPT !.errors = <<InvalidStateMessage>>])
                  /\ UNCHANGED recStarted
             ELSE /\ isListening' = TRUE
                  /\ recStarted' = TRUE
                  /\ runs' = Append(runs, [NewRun("voice", "listening", <<>>, 0)
                                            EXCEPT !.captures = 1])
          /\ UNCHANGED << isTranslating, isSpeaking, hasRecognition, hasSynthesis,
                          utterances, cancelled, messages >>

\* mutation of RecognitionResult: the trimmed transcript is passed on
RecognitionResult_PassesTrimmed ==
  /\ recStarted
  /\ \E text \in Transcripts, conf \in CaptureConfidences :
       LET r == recOwner
           run == runs[r]
       IN  /\ recStarted' = FALSE
           /\ IF run.pc = "listening"
              THEN /\ isListening' = FALSE
                   /\ IF Trim(text) # <<>>
                      THEN /\ isTranslating' = TRUE
                           /\ runs' = [runs EXCEPT ![r] =
                                 BeginTranslate([run EXCEPT !.captured = TRUE],
                                                Trim(text), conf)]
                      ELSE /\ runs' = [runs EXCEPT ![r] =
                                 [run EXCEPT !.captured = TRUE, !.text = text,
                                             !.conf = conf, !.pc = "done"]]
                           /\ UNCHANGED isTranslating
              ELSE UNCHANGED << isListening, isTranslating, runs >>
  /\ UNCHANGED << isSpeaking, abortController, hasRecognition, hasSynthesis,
                  recOwner, utterances, cancelled, messages >>

\* recognition.onresult fires: the promise of the owning call resolves and
\* startListening continues (lines 62-66) into translateAndSpeak.
RecognitionResult ==
  /\ recStarted
  /\ \E text \in Transcripts, conf \in CaptureConfidences :
       LET r == recOwner
           run == runs[r]
       IN  /\ recStarted' = FALSE
           /\ IF run.pc = "listening"
              THEN /\ isListening' = FALSE
                   /\ IF Trim(text) # <<>>
                      THEN /\ isTranslating' = TRUE
                           /\ runs' = [runs EXCEPT ![r] =
                                 BeginTranslate([run EXCEPT !.captured = TRUE], text, conf)]
                      ELSE /\ runs' = [runs EXCEPT ![r] =
                                 [run EXCEPT !.captured = TRUE, !.text = text,
                                             !.conf = conf, !.pc = "done"]]
                           /\ UNCHANGED isTranslating
              ELSE UNCHANGED << isListening, isTranslating, runs >>
  /\ UNCHANGED << isSpeaking, abortController, hasRecognition, hasSynthesis,
                  recOwner, utterances, cancelled, messages >>

\* mutation of RecognitionError: the capture is started again after an error
RecognitionError_Retries ==
  /\ recStarted
  /\ \E e \in RecErrors :
       LET r == recOwner
           run == runs[r]
           msg == RecognitionErrorMessage(e)
           handled == [run EXCEPT !.captureFailed = TRUE,
                                  !.errors = Append(@, msg)]
       IN  /\ runs[r].captures < 2
           /\ recStarted' = TRUE
           /\ isListening' = TRUE
           /\ runs' = [runs EXCEPT ![r] = [handled EXCEPT !.captures = @ + 1]]
  /\ UNCHANGED << isTranslating, isSpeaking, abortController, hasRecognition,
                  hasSynthesis, recOwner, utterances, cancelled, messages >>

\* recognition.onerror fires: the hook's error handler runs (lines 55-59),
\* then the promise rejects and the catch block runs (lines 67-76).
RecognitionError ==
  /\ recStarted
  /\ \E e \in RecErrors :
       LET r == recOwner
           run == runs[r]
           msg == RecognitionErrorMessage(e)
           handled == [run EXCEPT !.captureFailed = TRUE,
                                  !.errors = Append(@, msg)]
       IN  /\ recStarted' = FALSE
           /\ isListening' = FALSE
           /\ IF run.pc = "listening"
              THEN runs' = [runs EXCEPT ![r] =
                      [handled EXCEPT !.pc = "done", !.errors = Append(@, msg)]]
              ELSE runs' = [runs EXCEPT ![r] = handled]
  /\ UNCHANGED << isTranslating, isSpeaking, abortController, hasRecognition,
                  hasSynthesis, recOwner, utterances, cancelled, messages >>

\* the recognition session ends with neither a result nor an error event
\* (nomatch, or stop() with no audio): no handler is installed for it.
RecognitionEnd ==
  /\ recStarted
  /\ recStarted' = FALSE
  /\ UNCHANGED << isListening, isTranslating, isSpeaking, abortController,
                  hasRecognition, hasSynthesis, recOwner, utterances, cancelled,
                  runs, messages >>

\* mutation of StopListening: the call also drops the translating status
StopListening_ClearsTranslating ==
  /\ isListening' = FALSE
  /\ isTranslating' = FALSE
  /\ abortController' = IF abortController = "null" THEN "null" ELSE "aborted"
  /\ runs' = [r \in RunIds |->
                IF runs[r].pc = "listening"
                THEN [runs[r] EXCEPT !.stoppedListening = TRUE]
                ELSE runs[r]]
  /\ UNCHANGED << isSpeaking, hasRecognition, hasSynthesis,
                  recStarted, recOwner, utterances, cancelled, messages >>

\* stopListening(): recognition.stop() lets the engine finish with the audio
\* it has; the AbortController is aborted but nothing listens to its signal.
StopListening ==
  /\ isListening' = FALSE
  /\ abortController' = IF abortController = "null" THEN "null" ELSE "aborted"
  /\ runs' = [r \in RunIds |->
                IF runs[r].pc = "listening"
                THEN [runs[r] EXCEPT !.stoppedListening = TRUE]
                ELSE runs[r]]
  /\ UNCHANGED << isTranslating, isSpeaking, hasRecognition, hasSynthesis,
                  recStarted, recOwner, utterances, cancelled, messages >>

\* mutation of TranslateTextCall: the default speech confidence is 0
TranslateTextCall_ZeroConfidence ==
  /\ Len(runs) < MaxRuns
  /\ \E text \in TypedTexts :
       runs' = Append(runs, BeginTranslate(NewRun("text", "done", <<>>, 0), text, 0))
  /\ isTranslating' = TRUE
  /\ UNCHANGED << isListening, isSpeaking, abortController, hasRecognition,
                  hasSynthesis, recStarted, recOwner, utterances, cancelled,
                  messages >>

\* translateText(text): translateAndSpeak(text) with speechConfidence 1.0
TranslateTextCall ==
  /\ Len(runs) < MaxRuns
  /\ \E text \in TypedTexts :
       runs' = Append(runs, BeginTranslate(NewRun("text", "done", <<>>, 0), text, 100))
  /\ isTranslating' = TRUE
  /\ UNCHANGED << isListening, isSpeaking, abortController, hasRecognition,
                  hasSynthesis, recStarted, recOwner, utterances, cancelled,
                  messages >>

\* translationService.translateText settles (it always resolves) and
\* translateAndSpeak continues (lines 99-115) up to the await of playback.
TranslationSettles(r) ==
  /\ runs[r].pc = "translating"
  /\ \E env \in TranslationEnvs :
       LET run == runs[r]
           tr == TranslateText(run.text, env)
           built == [run EXCEPT !.translated = Outcome(env),
                                !.tr = tr,
                                !.result = BuildResult(run.text, run.conf, tr),
                                !.playbacks = @ + 1,
                                !.spoken = tr.translatedText]
       IN  IF hasSynthesis
           THEN /\ isSpeaking' = TRUE
                /\ utterances' = Append(utterances, r)
                /\ runs' = [runs EXCEPT ![r] = [built EXCEPT !.pc = "speaking"]]
                /\ UNCHANGED isTranslating
           ELSE \* synthesizeSpeech rejects at once: catch and finally run
                /\ isSpeaking' = FALSE
                /\ isTranslating' = FALSE
                /\ runs' = [runs EXCEPT ![r] =
                      [built EXCEPT !.pc = "done", !.played = "error",
                                    !.errors = Append(@, SynthesisUnsupportedMessage)]]
                /\ UNCHANGED utterances
  /\ UNCHANGED << isListening, abortController, hasRecognition, hasSynthesis,
                  recStarted, recOwner, cancelled, messages >>

\* utterances an event can still be fired for: the one being spoken, and
\* those removed from the queue by cancel()
BeingSpoken == IF utterances = <<>> THEN {} ELSE {Head(utterances)}

Remove(q, r) == SelectSeq(q, LAMBDA x : x # r)

\* mutation of SynthesisEnd: the finally block is missing
SynthesisEnd_NoFinally(r) ==
  /\ r \in BeingSpoken \cup cancelled
  /\ utterances' = Remove(utterances, r)
  /\ cancelled' = cancelled \ {r}
  /\ isSpeaking' = FALSE
  /\ messages' = HandleTranslationComplete(messages, runs[r].result)
  /\ runs' = [runs EXCEPT ![r] =
        [@ EXCEPT !.pc = "done", !.played = "end", !.results = @ + 1]]
  /\ UNCHANGED << isListening, isTranslating, abortController, hasRecognition,
                  hasSynthesis, recStarted, recOwner >>

\* utterance.onend fires: synthesizeSpeech resolves, translateAndSpeak runs
\* lines 116-123 and the finally block.
SynthesisEnd(r) ==
  /\ r \in BeingSpoken \cup cancelled
  /\ utterances' = Remove(utterances, r)
  /\ cancelled' = cancelled \ {r}
  /\ isSpeaking' = FALSE
  /\ isTranslating' = FALSE
  /\ messages' = HandleTranslationComplete(messages, runs[r].result)
  /\ runs' = [runs EXCEPT ![r] =
        [@ EXCEPT !.pc = "done", !.played = "end", !.results = @ + 1]]
  /\ UNCHANGED << isListening, abortController, hasRecognition, hasSynthesis,
                  recStarted, recOwner >>

\* mutation of SynthesisError: the result is delivered on the error path too
SynthesisError_AlsoDelivers(r) ==
  /\ r \in BeingSpoken \cup cancelled
  /\ \E e \in SynthErrors :
       runs' = [runs EXCEPT ![r] =
          [@ EXCEPT !.pc = "done", !.played = "error", !.results = @ + 1,
                    !.errors = Append(@, SynthesisErrorMessage(e))]]
  /\ utterances' = Remove(utterances, r)
  /\ cancelled' = cancelled \ {r}
  /\ isSpeaking' = FALSE
  /\ isTranslating' = FALSE
  /\ messages' = HandleTranslationComplete(messages, runs[r].result)
  /\ UNCHANGED << isListening, abortController, hasRecognition, hasSynthesis,
                  recStarted, recOwner >>

\* mutation of SynthesisError: isTranslating is not cleared on the error path
SynthesisError_KeepsTranslating(r) ==
  /\ r \in BeingSpoken \cup cancelled
  /\ \E e \in SynthErrors :
       runs' = [runs EXCEPT ![r] =
          [@ EXCEPT !.pc = "done", !.played = "error",
                    !.errors = Append(@, SynthesisErrorMessage(e))]]
  /\ utterances' = Remove(utterances, r)
  /\ cancelled' = cancelled \ {r}
  /\ isSpeaking' = FALSE
  /\ UNCHANGED << isListening, isTranslating, abortController, hasRecognition,
                  hasSynthesis, recStarted, recOwner, messages >>

\* utterance.onerror fires: synthesizeSpeech rejects, the catch block and
\* the finally block run (lines 125-137).
SynthesisError(r) ==
  /\ r \in BeingSpoken \cup cancelled
  /\ \E e \in SynthErrors :
       runs' = [runs EXCEPT ![r] =
          [@ EXCEPT !.pc = "done", !.played = "error",
                    !.errors = Append(@, SynthesisErrorMessage(e))]]
  /\ utterances' = Remove(utterances, r)
  /\ cancelled' = cancelled \ {r}
  /\ isSpeaking' = FALSE
  /\ isTranslating' = FALSE
  /\ UNCHANGED << isListening, abortController, hasRecognition, hasSynthesis,
                  recStarted, recOwner, messages >>

\* a cancelled utterance is dropped without any event
SynthesisSilent(r) ==
  /\ r \in cancelled
  /\ cancelled' = cancelled \ {r}
  /\ UNCHANGED << isListening, isTranslating, isSpeaking, abortController,
                  hasRecognition, hasSynthesis, recStarted, recOwner,
                  utterances, runs, messages >>

\* stopSpeaking(): synthesis.cancel() when something is being spoken
StopSpeaking ==
  /\ isSpeaking' = FALSE
  /\ IF hasSynthesis /\ utterances # <<>>
     THEN /\ utterances' = <<>>
          /\ cancelled' = cancelled \cup { utterances[i] : i \in 1 .. Len(utterances) }
     ELSE UNCHANGED << utterances, cancelled >>
  /\ runs' = [r \in RunIds |->
                IF runs[r].pc = "speaking"
                THEN [runs[r] EXCEPT !.stoppedSpeaking = TRUE]
                ELSE runs[r]]
  /\ UNCHANGED << isListening, isTranslating, abortController, hasRecognition,
                  hasSynthesis, recStarted, recOwner, messages >>

Next ==
  \/ StartListening /\ UNCHANGED << batch, lang >>
  \/ RecognitionResult /\ UNCHANGED << batch, lang >>
  \/ RecognitionError /\ UNCHANGED << batch, lang >>
  \/ RecognitionEnd /\ UNCHANGED << batch, lang >>
  \/ StopListening /\ UNCHANGED << batch, lang >>
  \/ TranslateTextCall /\ UNCHANGED << batch, lang >>
  \/ \E r \in RunIds : TranslationSettles(r) /\ UNCHANGED << batch, lang >>
  \/ \E r \in RunIds : SynthesisEnd(r) /\ UNCHANGED << batch, lang >>
  \/ \E r \in RunIds : SynthesisError(r) /\ UNCHANGED << batch, lang >>
  \/ \E r \in RunIds : SynthesisSilent(r) /\ UNCHANGED << batch, lang >>
  \/ StopSpeaking /\ UNCHANGED << batch, lang >>

Spec == Init /\ [][Next]_vars

\* ------------------------------------- every capability call gets a signal
\* The hook when every capability call that was started produces one of its
\* signals: a started recognition fires a result or an error event, a
\* translateText call settles, a queued or cancelled utterance fires end or
\* error.  The silent endings (RecognitionEnd, SynthesisSilent) do not occur.
NextLive ==
  \/ StartListening /\ Len(runs) < MaxLiveRuns /\ UNCHANGED << batch, lang >>
  \/ RecognitionResult /\ UNCHANGED << batch, lang >>
  \/ RecognitionError /\ UNCHANGED << batch, lang >>
  \/ StopListening /\ UNCHANGED << batch, lang >>
  \/ TranslateTextCall /\ Len(runs) < MaxLiveRuns /\ UNCHANGED << batch, lang >>
  \/ \E r \in RunIds : TranslationSettles(r) /\ UNCHANGED << batch, lang >>
  \/ \E r \in RunIds : SynthesisEnd(r) /\ UNCHANGED << batch, lang >>
  \/ \E r \in RunIds : SynthesisError(r) /\ UNCHANGED << batch, lang >>
  \/ StopSpeaking /\ UNCHANGED << batch, lang >>

\* a signal of a capability call that is outstanding
Signal ==
  \/ RecognitionResult
  \/ RecognitionError
  \/ \E r \in RunIds : TranslationSettles(r)
  \/ \E r \in RunIds : SynthesisEnd(r)
  \/ \E r \in RunIds : SynthesisError(r)

\* while a capability call is outstanding, a signal is eventually delivered
SignalsArrive == WF_vars(Signal /\ UNCHANGED << batch, lang >>)

SpecLive == Init /\ [][NextLive]_vars /\ SignalsArrive

\* ------------------------------------------- the hook, statement by statement
\* The same handlers with the statements around a callback taken one at a
\* time, so that the state in which onTranslationComplete and onError are
\* invoked is a state of the model.  A run inside a handler has the line it
\* is at as its pc; a task runs to completion, so nothing else happens until
\* the handler has returned (Quiet).  The platform has the speech capability.
Quiet ==
  \A r \in RunIds : runs[r].pc \in {"listening", "translating", "speaking", "done"}

\* a run's pc is at line l
At(r, l) == r \in RunIds /\ runs[r].pc = l

\* startListening() while the recognition object is started: lines 47-48,
\* recognizeSpeech installs its handlers, start() throws, line 68
StartListeningThrows ==
  /\ Quiet /\ IsSupported /\ recStarted
  /\ Len(runs) < MaxRuns
  /\ abortController' = "active"
  /\ recOwner' = Len(runs) + 1
  /\ isListening' = FALSE
  /\ runs' = Append(runs, NewRun("voice", "L70", <<>>, 0))
  /\ UNCHANGED << isTranslating, isSpeaking, hasRecognition, hasSynthesis,
                  recStarted, utterances, cancelled, messages >>

\* recognition.onerror fires (part_003 lines 75-76): its error callback is
\* about to be called
RecognitionOnError ==
  /\ Quiet /\ recStarted
  /\ recStarted' = FALSE
  /\ runs' = [runs EXCEPT ![recOwner] =
        [@ EXCEPT !.captureFailed = TRUE,
                  !.pc = IF @ = "listening" THEN "L57" ELSE "L57settled"]]
  /\ UNCHANGED << isListening, isTranslating, isSpeaking, abortController,
                  hasRecognition, hasSynthesis, recOwner, utterances, cancelled,
                  messages >>

\* line 57: onError?.(error)
Line57_OnError(r) ==
  /\ At(r, "L57") \/ At(r, "L57settled")
  /\ \E e \in RecErrors :
       runs' = [runs EXCEPT ![r] =
          [@ EXCEPT !.errors = Append(@, RecognitionErrorMessage(e)),
                    !.pc = IF @ = "L57" THEN "L58" ELSE "L58settled"]]
  /\ UNCHANGED << isListening, isTranslating, isSpeaking, abortController,
                  hasRecognition, hasSynthesis, recStarted, recOwner,
                  utterances, cancelled, messages >>

\* line 58: setIsListening(false); then reject (part_003 line 78) and, when
\* the promise was pending, line 68 of the catch block
Line58_SetIsListening(r) ==
  /\ At(r, "L58") \/ At(r, "L58settled")
  /\ isListening' = FALSE
  /\ runs' = [runs EXCEPT ![r].pc = IF @ = "L58" THEN "L70" ELSE "done"]
  /\ UNCHANGED << isTranslating, isSpeaking, abortController, hasRecognition,
                  hasSynthesis, recStarted, recOwner, utterances, cancelled,
                  messages >>

\* line 70: onError?.(errorMessage), the message of the rejection
Line70_OnError(r) ==
  /\ At(r, "L70")
  /\ runs' = [runs EXCEPT ![r] =
        [@ EXCEPT !.errors = Append(@, IF @ = <<>> THEN InvalidStateMessage
                                       ELSE @[Len(@)]),
                  !.pc = "done"]]
  /\ UNCHANGED << isListening, isTranslating, isSpeaking, abortController,
                  hasRecognition, hasSynthesis, recStarted, recOwner,
                  utterances, cancelled, messages >>

\* utterance.onend fires: synthesizeSpeech resolves, line 116
UtteranceOnEnd(r) ==
  /\ Quiet /\ r \in BeingSpoken \cup cancelled
  /\ utterances' = Remove(utterances, r)
  /\ cancelled' = cancelled \ {r}
  /\ isSpeaking' = FALSE
  /\ runs' = [runs EXCEPT ![r] = [@ EXCEPT !.pc = "L118", !.played = "end"]]
  /\ UNCHANGED << isListening, isTranslating, abortController, hasRecognition,
                  hasSynthesis, recStarted, recOwner, messages >>

\* line 118: onTranslationComplete?.(result)
Line118_OnTranslationComplete(r) ==
  /\ At(r, "L118")
  /\ messages' = HandleTranslationComplete(messages, runs[r].result)
  /\ runs' = [runs EXCEPT ![r] = [@ EXCEPT !.pc = "L136", !.results = @ + 1]]
  /\ UNCHANGED << isListening, isTranslating, isSpeaking, abortController,
                  hasRecognition, hasSynthesis, recStarted, recOwner,
                  utterances, cancelled >>

\* utterance.onerror fires: synthesizeSpeech rejects, lines 126-127
UtteranceOnError(r) ==
  /\ Quiet /\ r \in BeingSpoken \cup cancelled
  /\ utterances' = Remove(utterances, r)
  /\ cancelled' = cancelled \ {r}
  /\ isTranslating' = FALSE
  /\ isSpeaking' = FALSE
  /\ runs' = [runs EXCEPT ![r] = [@ EXCEPT !.pc = "L129", !.played = "error"]]
  /\ UNCHANGED << isListening, abortController, hasRecognition, hasSynthesis,
                  recStarted, recOwner, messages >>

\* line 129: onError?.(errorMessage)
Line129_OnError(r) ==
  /\ At(r, "L129")
  /\ \E e \in SynthErrors :
       runs' = [runs EXCEPT ![r] =
          [@ EXCEPT !.errors = Append(@, SynthesisErrorMessage(e)),
                    !.pc = "L136"]]
  /\ UNCHANGED << isListening, isTranslating, isSpeaking, abortController,
                  hasRecognition, hasSynthesis, recStarted, recOwner,
                  utterances, cancelled, messages >>

\* line 136: the finally block
Line136_Finally(r) ==
  /\ At(r, "L136")
  /\ isTranslating' = FALSE
  /\ runs' = [runs EXCEPT ![r].pc = "done"]
  /\ UNCHANGED << isListening, isSpeaking, abortController, hasRecognition,
                  hasSynthesis, recStarted, recOwner, utterances, cancelled,
                  messages >>

InitSteps == Init /\ IsSupported

NextSteps ==
  \/ Quiet /\ ~recStarted /\ StartListening /\ UNCHANGED << batch, lang >>
  \/ StartListeningThrows /\ UNCHANGED << batch, lang >>
  \/ Quiet /\ RecognitionResult /\ UNCHANGED << batch, lang >>
  \/ RecognitionOnError /\ UNCHANGED << batch, lang >>
  \/ \E r \in RunIds : Line57_OnError(r) /\ UNCHANGED << batch, lang >>
  \/ \E r \in RunIds : Line58_SetIsListening(r) /\ UNCHANGED << batch, lang >>
  \/ \E r \in RunIds : Line70_OnError(r) /\ UNCHANGED << batch, lang >>
  \/ Quiet /\ RecognitionEnd /\ UNCHANGED << batch, lang >>
  \/ Quiet /\ StopListening /\ UNCHANGED << batch, lang >>
  \/ Quiet /\ TranslateTextCall /\ UNCHANGED << batch, lang >>
  \/ \E r \in RunIds : Quiet /\ TranslationSettles(r) /\ UNCHANGED << batch, lang >>
  \/ \E r \in RunIds : UtteranceOnEnd(r) /\ UNCHANGED << batch, lang >>
  \/ \E r \in RunIds : Line118_OnTranslationComplete(r) /\ UNCHANGED << batch, lang >>
  \/ \E r \in RunIds : UtteranceOnError(r) /\ UNCHANGED << batch, lang >>
  \/ \E r \in RunIds : Line129_OnError(r) /\ UNCHANGED << batch, lang >>
  \/ \E r \in RunIds : Line136_Finally(r) /\ UNCHANGED << batch, lang >>
  \/ \E r \in RunIds : Quiet /\ SynthesisSilent(r) /\ UNCHANGED << batch, lang >>
  \/ Quiet /\ StopSpeaking /\ UNCHANGED << batch, lang >>

SpecSteps == InitSteps /\ [][NextSteps]_vars

\* ------------------------------------------ the language pair of a voice run
\* The hook is rendered again with the props from, to.  useCallback keeps a
\* callback of an earlier render unless one of its dependencies changed:
\* translateAndSpeak depends on fromLanguage, toLanguage and the callbacks
\* (line 138), startListening on fromLanguage, onError and toast (line 77).
\* callbacksChanged: the caller passed a new onError (or toast changed).
Rerender ==
  \E from \in Languages, to \in Languages, callbacksChanged \in BOOLEAN :
    LET tas == IF from # lang.fromLanguage \/ to # lang.toLanguage
                     \/ callbacksChanged
               THEN Closure(from, to)
               ELSE lang.translateAndSpeak
        sl == IF from # lang.fromLanguage \/ callbacksChanged
              THEN [fromLanguage |-> from, translateAndSpeak |-> tas]
              ELSE lang.startListening
    IN  /\ lang' = [lang EXCEPT !.fromLanguage = from, !.toLanguage = to,
                                !.translateAndSpeak = tas,
                                !.startListening = sl]
        /\ UNCHANGED << isListening, isTranslating, isSpeaking, abortController,
                        hasRecognition, hasSynthesis, recStarted, recOwner,
                        utterances, cancelled, runs, messages, batch >>

\* the caller invokes the startListening of the latest render (line 50)
LangStartListening ==
  /\ lang.run.stage \in {"none", "done"}
  /\ lang' = [lang EXCEPT !.run =
        [NoLangRun EXCEPT !.stage = "listening",
                          !.configured = Closure(lang.fromLanguage, lang.toLanguage),
                          !.callee = lang.startListening.translateAndSpeak,
                          !.captureLanguage = lang.startListening.fromLanguage]]
  /\ UNCHANGED << isListening, isTranslating, isSpeaking, abortController,
                  hasRecognition, hasSynthesis, recStarted, recOwner,
                  utterances, cancelled, runs, messages, batch >>

\* capture resolves: translateAndSpeak sends the request (lines 65, 93-97)
LangCaptureResolves ==
  /\ lang.run.stage = "listening"
  /\ lang' = [lang EXCEPT !.run.stage = "translating",
                          !.run.request = lang.run.callee]
  /\ UNCHANGED << isListening, isTranslating, isSpeaking, abortController,
                  hasRecognition, hasSynthesis, recStarted, recOwner,
                  utterances, cancelled, runs, messages, batch >>

\* the translation resolves: the result is built and playback is started
\* (lines 99-115)
LangTranslationResolves ==
  /\ lang.run.stage = "translating"
  /\ lang' = [lang EXCEPT !.run.stage = "speaking",
                          !.run.result = lang.run.callee,
                          !.run.playLanguage = lang.run.callee.toLanguage]
  /\ UNCHANGED << isListening, isTranslating, isSpeaking, abortController,
                  hasRecognition, hasSynthesis, recStarted, recOwner,
                  utterances, cancelled, runs, messages, batch >>

\* playback ends and the result is delivered (lines 116-118)
LangPlaybackEnds ==
  /\ lang.run.stage = "speaking"
  /\ lang' = [lang EXCEPT !.run.stage = "done"]
  /\ UNCHANGED << isListening, isTranslating, isSpeaking, abortController,
                  hasRecognition, hasSynthesis, recStarted, recOwner,
                  utterances, cancelled, runs, messages, batch >>

InitLanguage == Init /\ IsSupported

NextLanguage ==
  \/ Rerender
  \/ LangStartListening
  \/ LangCaptureResolves
  \/ LangTranslationResolves
  \/ LangPlaybackEnds

SpecLanguage == InitLanguage /\ [][NextLanguage]_vars

\* ------------------------------------------- the TranslationService alone
\* One translateText call of the service, step by step: it awaits getApiKey
\* ("key"), then the fetch of the remote request and its body ("fetch"), and
\* its promise settles.
NewRequest(text) ==
  [ text |-> text,
    pc |-> "key",               \* "key", "fetch", "settled"
    promise |-> "pending",      \* "pending", "fulfilled", "rejected"
    point |-> "none",           \* where the call failed, "unusable" or "none"
    sent |-> 0,                 \* remote translation requests sent
    response |-> NoResponse ]

\* where a translateText call fails under env
FailurePoint(env) ==
  IF ~GetApiKey(env.key) THEN "credentials"
  ELSE IF env.resp = "netFail" THEN "network"
  ELSE IF env.resp = "notOk" THEN "status"
  ELSE IF env.resp = "badJson" THEN "parse"
  ELSE IF ~env.cand.has \/ Trim(env.cand.text) = <<>> THEN "unusable"
  ELSE "none"

\* the promise of translateText settles with what its try/catch returns
Settle(req, env) ==
  [req EXCEPT !.pc = "settled", !.promise = "fulfilled",
              !.point = FailurePoint(env),
              !.response = TranslateText(req.text, env)]

BatchIds == 1 .. Len(batch.reqs)

\* mutation of PromiseAll: the values come in the order the promises settled
PromiseAll_SettleOrder(reqs, order) ==
  [k \in 1 .. Len(reqs) |-> reqs[order[k]].response]

\* Promise.all over fulfilled promises: their values, in the order of the array
PromiseAll(reqs, order) ==
  [i \in 1 .. Len(reqs) |-> reqs[i].response]

\* batchTranslate(requests): every translateText call is started
BatchTranslate ==
  /\ batch.state = "idle"
  /\ \E n \in 0 .. MaxBatch :
       \E texts \in [1 .. n -> BatchTexts] :
         batch' = [batch EXCEPT !.state = "pending",
                                !.reqs = [i \in 1 .. n |-> NewRequest(texts[i])]]
  /\ UNCHANGED hookVars

\* mutation of KeySettles: the remote request is sent without a key
KeySettles_SendsAnyway(i) ==
  /\ batch.reqs[i].pc = "key"
  /\ \E key \in {"local", "fetched", "netFail", "notOk", "badJson"} :
       IF GetApiKey(key)
       THEN batch' = [batch EXCEPT !.reqs[i].pc = "fetch", !.reqs[i].sent = @ + 1]
       ELSE batch' = [batch EXCEPT
                        !.reqs[i] = [Settle(@, [key |-> key, resp |-> "ok",
                                                 cand |-> NoCandidate])
                                       EXCEPT !.sent = @ + 1],
                        !.order = Append(@, i)]
  /\ UNCHANGED hookVars

\* getApiKey settles for request i: with a key the remote request is sent,
\* without one the catch block returns the fallback.
KeySettles(i) ==
  /\ batch.reqs[i].pc = "key"
  /\ \E key \in {"local", "fetched", "netFail", "notOk", "badJson"} :
       IF GetApiKey(key)
       THEN batch' = [batch EXCEPT !.reqs[i].pc = "fetch", !.reqs[i].sent = @ + 1]
       ELSE batch' = [batch EXCEPT
                        !.reqs[i] = Settle(@, [key |-> key, resp |-> "ok",
                                                cand |-> NoCandidate]),
                        !.order = Append(@, i)]
  /\ UNCHANGED hookVars

\* the remote request of request i ends (network error, status, body)
FetchSettles(i) ==
  /\ batch.reqs[i].pc = "fetch"
  /\ \E env \in TranslationEnvs :
       /\ GetApiKey(env.key)
       /\ batch' = [batch EXCEPT !.reqs[i] = Settle(@, env),
                                 !.order = Append(@, i)]
  /\ UNCHANGED hookVars

\* Promise.all settles: it rejects as soon as one promise has rejected and
\* fulfils when all have fulfilled.
BatchSettles ==
  /\ batch.state = "pending"
  /\ IF \E i \in BatchIds : batch.reqs[i].promise = "rejected"
     THEN batch' = [batch EXCEPT !.state = "rejected"]
     ELSE /\ \A i \in BatchIds : batch.reqs[i].promise = "fulfilled"
          /\ batch' = [batch EXCEPT !.state = "fulfilled",
                                    !.result = PromiseAll(batch.reqs, batch.order)]
  /\ UNCHANGED hookVars

InitService == Init /\ hasRecognition /\ hasSynthesis

NextService ==
  \/ BatchTranslate
  \/ \E i \in BatchIds : KeySettles(i)
  \/ \E i \in BatchIds : FetchSettles(i)
  \/ BatchSettles

SpecService == InitService /\ [][NextService]_vars

TypeOK ==
  /\ isListening \in BOOLEAN /\ isTranslating \in BOOLEAN /\ isSpeaking \in BOOLEAN
  /\ abortController \in {"null", "active", "aborted"}
  /\ recOwner \in 0 .. MaxRuns
  /\ Len(runs) <= MaxRuns
  /\ \A r \in RunIds : runs[r].pc \in {"listening", "translating", "speaking", "done"}

\* ------------------------------------------------- status of the hook
Idle == ~isListening /\ ~isTranslating /\ ~isSpeaking

\* runs suspended at the await of capture / translation / playback
Awaiting(pc) == { r \in RunIds : runs[r].pc = pc }

\* runs that have a capability call outstanding
Capturing == { r \in RunIds : runs[r].pc = "listening" /\ recStarted /\ recOwner = r }
Playing == { utterances[i] : i \in 1 .. Len(utterances) }
InFlight == Capturing \cup Awaiting("translating") \cup Playing

\* m is the smaller of a and b
IsMinOf(m, a, b) == m \in {a, b} /\ m <= a /\ m <= b

\* ---------------------------------------------------------------- C1
\* C1: in every reachable state at most one of the three status flags
\* isListening, isTranslating, isSpeaking is true.
C1_AtMostOneFlag ==
  /\ ~(isListening /\ isTranslating)
  /\ ~(isListening /\ isSpeaking)
  /\ ~(isTranslating /\ isSpeaking)

\* ---------------------------------------------------------------- C2
\* C2: startListening() called while the orchestrator is not Idle has no
\* observable effect: no capture starts, no flag changes, no callback fires,
\* and the run in flight keeps its handlers and its state.  (Stated for a
\* platform that has the speech capability, where the call reaches capture.)
C2_StartListeningIgnoredWhenBusy ==
  [][ (~Idle /\ IsSupported /\ StartListening) =>
        /\ UNCHANGED << isListening, isTranslating, isSpeaking >>
        /\ UNCHANGED << recStarted, recOwner, utterances, cancelled >>
        /\ \A r \in RunIds : runs'[r] = runs[r]
        /\ \A r \in (1 .. Len(runs')) \ RunIds :
              /\ runs'[r].captures = 0
              /\ runs'[r].errors = <<>>
              /\ runs'[r].results = 0 ]_vars

\* ---------------------------------------------------------------- C3
\* C3: at most one pipeline run is in flight at a time: never two
\* captures, two translation requests or two playbacks in progress.
C3_OnePipelineInFlight ==
  /\ Cardinality(Capturing) <= 1
  /\ Cardinality(Awaiting("translating")) <= 1
  /\ Len(utterances) <= 1
  /\ Cardinality(InFlight) <= 1

\* ---------------------------------------------------------------- C4
\* C4: stopListening() during Listening takes the orchestrator to Idle, and
\* the cancelled run never starts a translation or a playback and never
\* invokes the completion callback afterwards.
C4_StopListeningCancelsRun ==
  [][ /\ (isListening /\ Awaiting("listening") # {} /\ StopListening) => Idle'
      /\ \A r \in RunIds :
            runs[r].stoppedListening =>
              /\ runs'[r].results = runs[r].results
              /\ runs'[r].translations = runs[r].translations
              /\ runs'[r].playbacks = runs[r].playbacks ]_vars

\* ---------------------------------------------------------------- C5
\* C5: stopSpeaking() during Speaking takes the orchestrator to Idle (all
\* three flags false right after the call), and the cancelled run never
\* invokes the completion callback afterwards.
C5_StopSpeakingCancelsRun ==
  [][ /\ (isSpeaking /\ Awaiting("speaking") # {} /\ StopSpeaking) => Idle'
      /\ \A r \in RunIds :
            runs[r].stoppedSpeaking => runs'[r].results = runs[r].results ]_vars

\* ---------------------------------------------------------------- C6
\* C6: once stopListening() or stopSpeaking() has returned, a late signal of
\* the cancelled stage (recognition result or error, synthesis end or error)
\* changes no status flag and fires neither callback.
LateCaptureSignal(r) ==
  /\ runs[r].stoppedListening /\ runs[r].pc = "listening" /\ recOwner = r
  /\ (RecognitionResult \/ RecognitionError)

LatePlaybackSignal(r) ==
  /\ runs[r].stoppedSpeaking /\ runs[r].pc = "speaking" /\ r \in cancelled
  /\ (SynthesisEnd(r) \/ SynthesisError(r))

C6_NoEffectAfterCancel ==
  [][ \A r \in RunIds :
        (LateCaptureSignal(r) \/ LatePlaybackSignal(r)) =>
          /\ UNCHANGED << isListening, isTranslating, isSpeaking >>
          /\ runs'[r].results = runs[r].results
          /\ runs'[r].errors = runs[r].errors ]_vars

\* ---------------------------------------------------------------- C7
\* C7: when capture fails during a run started by startListening, the
\* status returns to Idle, the error callback fires exactly once for that
\* run with a descriptive reason, and no result callback fires.
C7_CaptureFailureReportedOnce ==
  [][ (RecognitionError /\ InFlight = {recOwner}) =>
        /\ Idle'
        /\ Len(runs'[recOwner].errors) = Len(runs[recOwner].errors) + 1
        /\ \E e \in RecErrors :
              runs'[recOwner].errors[1] = RecognitionErrorMessage(e)
        /\ runs'[recOwner].results = 0 ]_vars

\* ---------------------------------------------------------------- C8
\* C8: a translation failure yields translatedText = text and confidence 0,
\* and the run still reaches Speaking: playback is invoked with that text.
C8_TranslationFailureDegrades ==
  [][ \A r \in RunIds :
        (runs[r].pc = "translating" /\ runs'[r].translated = "failed") =>
          /\ runs'[r].tr.translatedText = runs[r].text
          /\ runs'[r].tr.confidence = 0
          /\ runs'[r].playbacks = 1
          /\ runs'[r].spoken = runs[r].text
          /\ runs'[r].errors = runs[r].errors \/ ~hasSynthesis
          /\ hasSynthesis =>
                /\ runs'[r].pc = "speaking"
                /\ isSpeaking'
                /\ \E i \in 1 .. Len(utterances') : utterances'[i] = r ]_vars

\* a run whose translation failed is being spoken
C8_Witness ==
  \E r \in RunIds :
    /\ runs[r].translated = "failed"
    /\ runs[r].pc = "speaking"
    /\ runs[r].text # <<>>
    /\ isSpeaking

\* ---------------------------------------------------------------- C9
\* C9: when the remote call succeeds but returns nothing usable (no
\* candidate, or a candidate that is empty after trimming) the result
\* carries the original text and confidence zero.
C9_UnusableResponseDegrades ==
  \A r \in RunIds :
    runs[r].translated = "unusable" =>
      /\ runs[r].tr.translatedText = runs[r].text
      /\ runs[r].tr.confidence = 0

\* --------------------------------------------------------------- C10
\* C10: the confidence of a delivered result is the minimum of the capture
\* confidence and the translation confidence of the same run, and the
\* history stores it unchanged.
C10_ConfidenceIsMinimum ==
  [][ \A r \in RunIds :
        (runs[r].results = 0 /\ runs'[r].results = 1) =>
          /\ IsMinOf(runs'[r].result.confidence, runs[r].conf, runs[r].tr.confidence)
          /\ Len(messages') = Len(messages) + 1
          /\ messages'[Len(messages')].confidence = runs'[r].result.confidence
          /\ SubSeq(messages', 1, Len(messages)) = messages ]_vars

\* results were delivered with the capture confidence as the minimum (voice
\* run) and with the translation confidence as the minimum (typed run)
C10_Witness ==
  /\ \E r \in RunIds :
       /\ runs[r].results = 1 /\ runs[r].conf = 90 /\ runs[r].tr.confidence = 95
       /\ runs[r].result.confidence = 90
  /\ \E r \in RunIds :
       /\ runs[r].results = 1 /\ runs[r].conf = 100 /\ runs[r].tr.confidence = 95
       /\ runs[r].result.confidence = 95
  /\ Len(messages) = 2

\* --------------------------------------------------------------- C11
\* C11: the result callback is invoked exactly once per completed,
\* non-cancelled run and zero times for a run that was cancelled, that
\* failed in capture or playback, or that ended on an empty transcript.
Cancelled(r) == runs[r].stoppedListening \/ runs[r].stoppedSpeaking

C11_ResultOncePerCompletedRun ==
  \A r \in RunIds :
    /\ runs[r].results <= 1
    /\ (runs[r].pc = "done" /\ runs[r].played = "end" /\ ~Cancelled(r))
          => runs[r].results = 1
    /\ ( \/ Cancelled(r)
         \/ runs[r].captureFailed
         \/ runs[r].played = "error"
         \/ (runs[r].captured /\ Trim(runs[r].text) = <<>>) )
          => runs[r].results = 0

\* --------------------------------------------------------------- C12
\* C12: when the translation call fails inside a run, no error callback is
\* fired for it, the run goes on to Speaking, and when playback ends the
\* status is Idle and the result delivered is {originalText: the captured
\* text, translatedText: the same text, confidence: 0}.
OthersDone(r) == \A q \in RunIds \ {r} : runs[q].pc = "done"

C12_FailedTranslationRunCompletes ==
  [][ \A r \in RunIds :
        /\ (runs[r].pc = "translating" /\ runs'[r].translated = "failed"
              /\ hasSynthesis) =>
              /\ runs'[r].errors = <<>>
              /\ runs'[r].pc = "speaking"
              /\ isSpeaking'
        /\ (runs[r].translated = "failed" /\ runs[r].played = "no"
              /\ runs'[r].played = "end") =>
              /\ runs'[r].errors = <<>>
              /\ runs'[r].results = 1
              /\ runs'[r].result = [ originalText |-> runs[r].text,
                                     translatedText |-> runs[r].text,
                                     confidence |-> 0 ]
              /\ messages'[Len(messages')].translatedText = runs[r].text
              /\ messages'[Len(messages')].confidence = 0
              /\ OthersDone(r) => Idle' ]_vars

\* a voice run whose translation failed has delivered its result
C12_Witness ==
  \E r \in RunIds :
    /\ runs[r].kind = "voice" /\ runs[r].captured
    /\ runs[r].translated = "failed"
    /\ runs[r].played = "end" /\ runs[r].results = 1
    /\ runs[r].result.translatedText = runs[r].text
    /\ Idle

\* --------------------------------------------------------------- C13
\* C13: an empty or whitespace-only transcript takes Listening to Idle
\* without a translator or playback call and without any callback.
Blank(s) == \A i \in 1 .. Len(s) : s[i] = " "

C13_BlankTranscriptEndsRun ==
  [][ \A r \in RunIds :
        (runs[r].pc = "listening" /\ runs'[r].captured /\ Blank(runs'[r].text)) =>
          /\ runs'[r].pc = "done"
          /\ runs'[r].translations = 0
          /\ runs'[r].playbacks = 0
          /\ runs'[r].results = 0
          /\ runs'[r].errors = <<>>
          /\ ~isListening'
          /\ UNCHANGED << isTranslating, isSpeaking, utterances, messages >>
          /\ (~isTranslating /\ ~isSpeaking) => Idle' ]_vars

\* a blank transcript was captured and the orchestrator is Idle again
C13_Witness ==
  \E r \in RunIds :
    /\ runs[r].captured /\ runs[r].text = <<" ">>
    /\ runs[r].pc = "done"
    /\ runs[r].translations = 0
    /\ Idle

\* --------------------------------------------------------------- C14
\* C14: in a run where capture, translation and playback all succeed the
\* status goes Idle, Listening, Translating, Speaking, Idle, one state at a
\* time, and the result carries the captured text and the translator's
\* output.  (Stated for a single voice run that is never cancelled.)
Flags == << isListening, isTranslating, isSpeaking >>

C14_HappyPathStatusSequence ==
  (Len(runs) = 1 /\ runs[1].kind = "voice" /\ IsSupported /\ ~Cancelled(1)) =>
    /\ runs[1].pc = "listening" => Flags = << TRUE, FALSE, FALSE >>
    /\ runs[1].pc = "translating" => Flags = << FALSE, TRUE, FALSE >>
    /\ (runs[1].pc = "speaking" /\ runs[1].translated = "ok")
          => Flags = << FALSE, FALSE, TRUE >>
    /\ (runs[1].pc = "done" /\ runs[1].played = "end") =>
          /\ Flags = << FALSE, FALSE, FALSE >>
          /\ runs[1].results = 1
          /\ runs[1].result.originalText = runs[1].text
          /\ runs[1].result.translatedText = runs[1].tr.translatedText

\* --------------------------------------------------------------- C15
\* C15: when playback fails the run aborts to Idle, the error callback is
\* invoked with a reason, and the result callback is not invoked.
C15_PlaybackFailureAborts ==
  [][ \A r \in RunIds :
        (runs[r].played = "no" /\ runs'[r].played = "error") =>
          /\ runs'[r].pc = "done"
          /\ ~isTranslating' /\ ~isSpeaking'
          /\ isListening' = isListening
          /\ OthersDone(r) => Idle'
          /\ Len(runs'[r].errors) = Len(runs[r].errors) + 1
          /\ runs'[r].errors[Len(runs'[r].errors)] \in
                { SynthesisErrorMessage(e) : e \in SynthErrors }
                  \cup { SynthesisUnsupportedMessage }
          /\ runs'[r].results = 0
          /\ messages' = messages ]_vars

\* playback of a run failed while it was being spoken
C15_Witness ==
  \E r \in RunIds :
    /\ runs[r].played = "error" /\ runs[r].pc = "done"
    /\ runs[r].playbacks = 1 /\ ~runs[r].stoppedSpeaking
    /\ \E e \in SynthErrors : runs[r].errors = << SynthesisErrorMessage(e) >>
    /\ runs[r].results = 0
    /\ Idle

\* --------------------------------------------------------------- C16
\* C16: translateText(text) enters at Translating, never at Listening, and
\* from there on a run makes the same transitions and builds the same result
\* whether it was started by voice or by text; a typed run takes the capture
\* confidence as 1.0, so its result confidence is the translation confidence.
C16_DirectPathSameAsVoicePath ==
  [][ /\ \A r \in (1 .. Len(runs')) \ RunIds :
           runs'[r].kind = "text" =>
             /\ runs'[r].pc = "translating"
             /\ runs'[r].conf = 100
             /\ runs'[r].captures = 0
             /\ isTranslating'
             /\ UNCHANGED << isListening, isSpeaking, recStarted, recOwner >>
      /\ \A r \in RunIds :
           /\ runs[r].kind = "text" => runs[r].pc # "listening"
           /\ (runs[r].pc = "translating" /\ runs'[r].pc # "translating") =>
                /\ runs'[r].result.originalText = runs[r].text
                /\ runs'[r].result.translatedText = runs'[r].tr.translatedText
                /\ IsMinOf(runs'[r].result.confidence, runs[r].conf,
                           runs'[r].tr.confidence)
                /\ runs[r].kind = "text" =>
                      runs'[r].result.confidence = runs'[r].tr.confidence
                /\ hasSynthesis =>
                      /\ runs'[r].pc = "speaking" /\ isSpeaking'
                      /\ UNCHANGED << isListening, isTranslating >>
           /\ (runs[r].pc = "speaking" /\ runs'[r].played = "end") =>
                /\ runs'[r].results = 1 /\ runs'[r].result = runs[r].result
                /\ ~isSpeaking' /\ ~isTranslating'
                /\ UNCHANGED isListening ]_vars

\* a typed run and a voice run have both delivered a translated result
C16_Witness ==
  \E r, q \in RunIds :
    /\ runs[r].kind = "text" /\ runs[q].kind = "voice"
    /\ runs[r].results = 1 /\ runs[q].results = 1
    /\ runs[r].translated = "ok" /\ runs[q].translated = "ok"
    /\ runs[r].result.translatedText = runs[q].result.translatedText
    /\ runs[r].result.confidence = 95 /\ runs[q].result.confidence = 90
    /\ runs[r].captures = 0

\* --------------------------------------------------------------- C17
\* C17: translateText of the service never rejects: at each failure point
\* (credentials, network, response status, body) it resolves with
\* {translatedText: text, confidence: 0}; and when the credentials cannot be
\* resolved no remote translation request is sent.
FailurePoints == {"credentials", "network", "status", "parse"}

C17_TranslatorNeverThrows ==
  \A i \in BatchIds :
    /\ batch.reqs[i].promise # "rejected"
    /\ batch.reqs[i].pc = "settled" => batch.reqs[i].promise = "fulfilled"
    /\ batch.reqs[i].point \in FailurePoints =>
          batch.reqs[i].response =
            [translatedText |-> batch.reqs[i].text, confidence |-> 0]
    /\ batch.reqs[i].point = "credentials" => batch.reqs[i].sent = 0
    /\ batch.reqs[i].sent <= 1

\* one call failed on its credentials and another on its response body
C17_Witness ==
  \E i, j \in BatchIds :
    /\ batch.reqs[i].point = "credentials" /\ batch.reqs[i].promise = "fulfilled"
    /\ batch.reqs[i].sent = 0
    /\ batch.reqs[j].point = "parse" /\ batch.reqs[j].promise = "fulfilled"
    /\ batch.reqs[j].sent = 1

\* --------------------------------------------------------------- C18
\* C18: nothing is retried: a run invokes capture, translation and playback
\* at most once each, and a failed capture or playback ends the run with no
\* capability call of it outstanding; a run that is alone leaves the hook Idle
\* when it ends that way.
C18_NoRetry ==
  /\ (Len(runs) = 1 /\ (runs[1].captureFailed \/ runs[1].played = "error"))
        => Idle
  /\ \A r \in RunIds :
       /\ runs[r].captures <= 1
       /\ runs[r].translations <= 1
       /\ runs[r].playbacks <= 1
       /\ runs[r].captureFailed =>
             /\ runs[r].pc = "done"
             /\ runs[r].translations = 0 /\ runs[r].playbacks = 0
             /\ ~(recStarted /\ recOwner = r /\ runs[r].captures = 1)
       /\ runs[r].played = "error" =>
             /\ runs[r].pc = "done"
             /\ r \notin Playing \cup cancelled

\* one run ended on a capture failure and another on a playback failure
C18_Witness ==
  \E r, q \in RunIds :
    /\ runs[r].captureFailed /\ runs[r].captures = 1 /\ runs[r].pc = "done"
    /\ runs[q].played = "error" /\ runs[q].playbacks = 1 /\ runs[q].pc = "done"
    /\ ~recStarted /\ utterances = <<>>

\* --------------------------------------------------------------- C19
\* C19: the stages of one run are sequential: translation is requested only
\* after capture has returned a result, playback is started only after the
\* translation has returned, and no two stages of a run are in progress at
\* the same time.
C19_StagesSequential ==
  \A r \in RunIds :
    /\ (runs[r].kind = "voice" /\ runs[r].translations >= 1) =>
          /\ runs[r].captured
          /\ ~(recStarted /\ recOwner = r)
    /\ runs[r].playbacks >= 1 => runs[r].translated # "no"
    /\ runs[r].pc = "listening" =>
          runs[r].translations = 0 /\ runs[r].playbacks = 0
    /\ runs[r].pc = "translating" =>
          /\ runs[r].translated = "no" /\ runs[r].playbacks = 0
          /\ r \notin Playing \cup cancelled
    /\ r \in Playing \cup cancelled =>
          runs[r].pc = "speaking" /\ runs[r].translated # "no"

\* a voice run is being spoken after its capture and its translation
C19_Witness ==
  \E r \in RunIds :
    /\ runs[r].kind = "voice" /\ runs[r].captured
    /\ runs[r].pc = "speaking" /\ r \in Playing
    /\ runs[r].translations = 1 /\ runs[r].playbacks = 1
    /\ ~recStarted

\* --------------------------------------------------------------- C20
\* C20: batchTranslate returns a list as long as its requests whose i-th
\* element is the result of the i-th request, whatever the order in which
\* the requests complete; a failed request degrades its own element only
\* and the batch never fails.
C20_BatchKeepsRequestOrder ==
  /\ batch.state # "rejected"
  /\ batch.state = "fulfilled" =>
       /\ Len(batch.result) = Len(batch.reqs)
       /\ \A i \in BatchIds :
            /\ batch.result[i] = batch.reqs[i].response
            /\ batch.reqs[i].point \in FailurePoints =>
                  batch.result[i] =
                    [translatedText |-> batch.reqs[i].text, confidence |-> 0]
            /\ batch.reqs[i].point = "none" =>
                  /\ batch.result[i].confidence = 95
                  /\ batch.result[i].translatedText = <<"h", "o">>

\* the second request completed first, and the first one failed
C20_Witness ==
  /\ batch.state = "fulfilled"
  /\ Len(batch.reqs) = 2
  /\ batch.order = << 2, 1 >>
  /\ batch.reqs[1].text # batch.reqs[2].text
  /\ batch.reqs[1].point = "network"
  /\ batch.reqs[2].point = "none"
  /\ batch.result[1].translatedText = batch.reqs[1].text
  /\ batch.result[2].confidence = 95

\* --------------------------------------------------------------- C21
\* C21: stopListening() called while not Listening and stopSpeaking() called
\* while not Speaking leave the three status flags unchanged and fire no
\* callback; and neither of them, called during Translating, cancels the
\* translation: the run still awaits it and goes on to Speaking when it
\* returns.
CallbacksUnchanged ==
  /\ messages' = messages
  /\ \A r \in RunIds :
       runs'[r].results = runs[r].results /\ runs'[r].errors = runs[r].errors

C21_StopOutsideItsStageIsNoOp ==
  [][ /\ (StopListening /\ ~isListening) =>
            UNCHANGED << isListening, isTranslating, isSpeaking >>
            /\ CallbacksUnchanged
      /\ (StopSpeaking /\ ~isSpeaking) =>
            UNCHANGED << isListening, isTranslating, isSpeaking >>
            /\ CallbacksUnchanged
      /\ \A r \in RunIds :
           /\ (runs[r].pc = "translating" /\ (StopListening \/ StopSpeaking)) =>
                /\ runs'[r] = runs[r]
                /\ UNCHANGED isTranslating
           /\ (runs[r].pc = "translating" /\ runs'[r].pc # "translating"
                 /\ hasSynthesis) =>
                /\ runs'[r].pc = "speaking" /\ runs'[r].playbacks = 1
                /\ isSpeaking' ]_vars

\* stopListening() has been called while the only run was Translating, and
\* the translation is still awaited
C21_Witness ==
  /\ Len(runs) = 1
  /\ runs[1].kind = "voice" /\ runs[1].pc = "translating"
  /\ ~runs[1].stoppedListening
  /\ abortController = "aborted"
  /\ isTranslating /\ ~isListening /\ ~isSpeaking

\* --------------------------------------------------------------- C22
\* C22: on a platform without the speech capability a startListening() call
\* is terminal: the error callback fires exactly once for it, no capture is
\* started, no status flag changes, and the call does nothing afterwards.
C22_UnsupportedIsTerminal ==
  [][ /\ (StartListening /\ ~IsSupported) =>
            /\ UNCHANGED << isListening, isTranslating, isSpeaking >>
            /\ UNCHANGED << recStarted, recOwner, utterances, cancelled,
                            abortController, messages >>
            /\ Len(runs') = Len(runs) + 1
            /\ \A r \in RunIds : runs'[r] = runs[r]
            /\ runs'[Len(runs')].errors = << NotSupportedMessage >>
            /\ runs'[Len(runs')].captures = 0
            /\ runs'[Len(runs')].pc = "done"
      /\ \A r \in RunIds :
           (~IsSupported /\ runs[r].kind = "voice") => runs'[r] = runs[r] ]_vars

\* startListening() was called twice on a platform that lacks the synthesis
\* capability, the second time while a typed run was Translating
C22_Witness ==
  /\ hasRecognition /\ ~hasSynthesis
  /\ Len(runs) = 2
  /\ runs[1].kind = "text" /\ runs[1].pc = "translating" /\ isTranslating
  /\ runs[2].kind = "voice" /\ runs[2].pc = "done"
  /\ runs[2].errors = << NotSupportedMessage >> /\ runs[2].captures = 0
  /\ ~isListening /\ ~recStarted

\* --------------------------------------------------------------- C23
\* C23: no state is carried from one run to the next: a run started when the
\* hook is Idle and every earlier run has ended or was cancelled starts as a
\* first run does (capture starts, Listening is entered, no callback fires),
\* whatever the earlier runs were.
Ended(q) == runs[q].pc = "done" \/ Cancelled(q)

C23_NoCrossRunState ==
  [][ (StartListening /\ IsSupported /\ Idle /\ \A q \in RunIds : Ended(q)) =>
         /\ runs'[Len(runs')].pc = "listening"
         /\ runs'[Len(runs')].captures = 1
         /\ runs'[Len(runs')].errors = <<>>
         /\ isListening' /\ recStarted' ]_vars

\* --------------------------------------------------------------- C24
\* C24: when every capability call that was started produces one of its
\* signals, the hook always comes back to Idle (no flag stays true for
\* ever), and once no further run is started it stays Idle.
C24_EveryRunEndsIdle == (~Idle ~> Idle) /\ <>[]Idle

\* a run that stopListening() did not stop has gone through translation and
\* playback to its end, and the hook is Idle
C24_Witness ==
  /\ Idle
  /\ \E r \in RunIds :
       /\ runs[r].stoppedListening /\ runs[r].captured
       /\ runs[r].played = "end" /\ runs[r].pc = "done"
  /\ \A r \in RunIds : runs[r].pc = "done"

\* --------------------------------------------------------------- C25
\* C25: when the result callback or the error callback is invoked for a run
\* (no other run being under way), the three status flags are already false.
CallbackInvoked(r) ==
  \/ runs'[r].results > runs[r].results
  \/ Len(runs'[r].errors) > Len(runs[r].errors)

C25_IdleWhenCallbackFires ==
  [][ \A r \in RunIds :
        (CallbackInvoked(r) /\ \A q \in RunIds \ {r} : runs[q].pc = "done")
          => Idle ]_vars

\* --------------------------------------------------------------- C26
\* C26: when recognizeSpeech calls overlap on the shared SpeechService, the
\* handlers of the recognition in progress belong to the call that started
\* it: a call that awaits its capture is the one the signal will settle, and
\* a signal of a recognition is never delivered to another call.
StartedRecognition(r) == runs[r].captures = 1

C26_SignalGoesToItsCall ==
  /\ recStarted => StartedRecognition(recOwner)
  /\ \A r \in RunIds :
       (recStarted /\ runs[r].pc = "listening") => recOwner = r

\* --------------------------------------------------------------- C27
\* C27: a voice run uses the language pair configured on the hook when
\* startListening was invoked: capture and the result's fromLanguage use that
\* fromLanguage; the translation request, playback and the result's
\* toLanguage use that toLanguage.
C27_RunUsesConfiguredLanguages ==
  LET run == lang.run IN
    /\ run.stage # "none" => run.captureLanguage = run.configured.fromLanguage
    /\ run.stage \in {"translating", "speaking", "done"} =>
          run.request = run.configured
    /\ run.stage \in {"speaking", "done"} =>
          /\ run.playLanguage = run.configured.toLanguage
          /\ run.result = run.configured

\* --------------------------------------------------------------- C28
\* C28: no run invokes both the result callback and the error callback, also
\* when playback is cancelled or fails after the result has been built: a
\* playback that ends delivers the result and no error, a playback that
\* fails reports the error and delivers no result.
C28_ResultXorError ==
  \A r \in RunIds :
    /\ ~(runs[r].results >= 1 /\ runs[r].errors # <<>>)
    /\ runs[r].played = "end" => runs[r].results = 1 /\ runs[r].errors = <<>>
    /\ runs[r].played = "error" => runs[r].results = 0 /\ Len(runs[r].errors) = 1

\* a playback cancelled by stopSpeaking() has failed after the result was built
C28_Witness ==
  \E r \in RunIds :
    /\ runs[r].stoppedSpeaking /\ runs[r].played = "error"
    /\ runs[r].translated = "ok" /\ runs[r].result.translatedText = <<"h", "o">>
    /\ runs[r].results = 0 /\ Len(runs[r].errors) = 1

\* --------------------------------------------------------------- C29
\* C29: for a non-blank input text the text handed to playback is never
\* empty: when the call fails or the response has no usable candidate, it is
\* the input text.
C29_SomethingToSpeak ==
  \A r \in RunIds :
    (runs[r].playbacks >= 1 /\ Trim(runs[r].text) # <<>>) =>
      /\ runs[r].spoken # <<>>
      /\ Trim(runs[r].spoken) # <<>>
      /\ runs[r].translated \in {"failed", "unusable"} =>
            runs[r].spoken = runs[r].text

\* a run whose response had no usable candidate is speaking its input text
C29_Witness ==
  \E r \in RunIds :
    /\ runs[r].translated = "unusable" /\ runs[r].pc = "speaking"
    /\ runs[r].playbacks = 1 /\ r \in Playing
    /\ runs[r].spoken = runs[r].text /\ runs[r].text = <<"h", "i", " ">>

\* --------------------------------------------------------------- C30
\* C30: in a run that reaches playback, the text handed to playback is the
\* translatedText of the run's result, and the text sent to the translator is
\* the originalText of that result: the captured or typed text, unmodified.
C30_TextsPassedThrough ==
  \A r \in RunIds :
    runs[r].playbacks >= 1 =>
      /\ runs[r].spoken = runs[r].result.translatedText
      /\ runs[r].spoken = runs[r].tr.translatedText
      /\ runs[r].result.originalText = runs[r].text
      /\ runs[r].kind = "voice" => runs[r].text \in Transcripts
      /\ runs[r].kind = "text" => runs[r].text \in TypedTexts
      /\ runs[r].translated = "failed" =>
            runs[r].tr.translatedText = runs[r].result.originalText
      /\ runs[r].results = 1 =>
            \E i \in 1 .. Len(messages) :
              /\ messages[i].originalText = runs[r].text
              /\ messages[i].translatedText = runs[r].spoken

\* a voice run has delivered a result whose originalText is the transcript
\* with its trailing blank and whose translatedText is what was spoken
C30_Witness ==
  \E r \in RunIds :
    /\ runs[r].kind = "voice" /\ runs[r].results = 1
    /\ runs[r].text = <<"h", "i", " ">>
    /\ runs[r].result.originalText = <<"h", "i", " ">>
    /\ runs[r].spoken = <<"h", "o">>
    /\ runs[r].result.translatedText = <<"h", "o">>

====
